---- MODULE Spec2Model ----
(***************************************************************************)
(* Model of the Plane webhook bot (src/plane/plugin.py, src/plane/utils.py).*)
(*                                                                         *)
(* Python values are tagged records: [t |-> "null"] is None / JSON null,   *)
(* [t |-> "str", v |-> s] a str (s a sequence of one-character strings, or *)
(* of literal chunks for template text), [t |-> "num", v |-> n] a number,  *)
(* [t |-> "list", v |-> xs] a list and [t |-> "dict", v |-> f] a dict whose *)
(* keys are DOMAIN f.                                                      *)
(***************************************************************************)
EXTENDS Integers, Sequences, FiniteSets, TLC

VARIABLES
    config,     \* self.config: the loaded settings (a function on the keys that are set)
    pc,         \* position of the request inside PlaneBot.webhook
    request,    \* [body, sig]: raw body and X-Plane-Signature header value
    payload,    \* json.loads result (webhook) / argument of handle_issue_updated
    message,    \* local variable `message` of webhook
    response,   \* the Response webhook returned
    exception,  \* name of the exception that escaped webhook, "" when none
    delivery,   \* what client.send_markdown did: "none", "ok" or "error"
    sent,       \* the send_markdown calls made, in order
    trace,      \* the steps the request went through, in order
    result      \* return value and log of handle_issue_updated (SpecUpdate)

vars == <<config, pc, request, payload, message, response, exception,
          delivery, sent, trace, result>>

(***************************************************************************)
(* Bounds                                                                  *)
(***************************************************************************)
\* longest data.assignees list drawn as input
MaxAssignees == 2

(***************************************************************************)
(* Python values                                                           *)
(***************************************************************************)
None == [t |-> "null"]

Str(s) == [t |-> "str", v |-> s]

Num(n) == [t |-> "num", v |-> n]

List(xs) == [t |-> "list", v |-> xs]

Dict(f) == [t |-> "dict", v |-> f]

\* the dict with no keys
EmptyMap == [k \in {} |-> None]

\* key k bound to x, or nothing when the key is left out of the document
Absent == [t |-> "absent"]

Opt(k, x) == IF x.t = "absent" THEN EmptyMap ELSE (k :> x)

\* bool(x) / `not x` / `x or y` truthiness
Truthy(x) ==
    CASE x.t = "null" -> FALSE
      [] x.t = "str"  -> Len(x.v) > 0
      [] x.t = "list" -> Len(x.v) > 0
      [] x.t = "num"  -> x.v # 0
      [] x.t = "dict" -> DOMAIN x.v # {}
      [] OTHER        -> FALSE

\* `x or y`
Or(x, y) == IF Truthy(x) THEN x ELSE y

RECURSIVE Digits(_)
Digits(n) ==
    IF n < 10
    THEN <<CASE n = 0 -> "0" [] n = 1 -> "1" [] n = 2 -> "2" [] n = 3 -> "3"
             [] n = 4 -> "4" [] n = 5 -> "5" [] n = 6 -> "6" [] n = 7 -> "7"
             [] n = 8 -> "8" [] OTHER -> "9">>
    ELSE Digits(n \div 10) \o Digits(n % 10)

RECURSIVE Join(_, _)
Join(sep, parts) ==
    IF parts = <<>> THEN <<>>
    ELSE IF Len(parts) = 1 THEN parts[1]
    ELSE parts[1] \o sep \o Join(sep, Tail(parts))

\* repr() of the elements the model puts in lists, and str() of a value
Repr(x) ==
    CASE x.t = "str"  -> <<"'">> \o x.v \o <<"'">>
      [] x.t = "num"  -> Digits(x.v)
      [] x.t = "null" -> <<"None">>
      [] OTHER        -> <<"?">>

PyStr(x) ==
    CASE x.t = "str"  -> x.v
      [] x.t = "num"  -> Digits(x.v)
      [] x.t = "null" -> <<"None">>
      [] x.t = "list" ->
            <<"[">> \o Join(<<",", " ">>, [i \in 1..Len(x.v) |-> Repr(x.v[i])]) \o <<"]">>
      [] OTHER        -> <<"{...}">>

(***************************************************************************)
(* str methods                                                             *)
(***************************************************************************)
Whitespace == {" ", "\t", "\n"}

Upper == <<"A","B","C","D","E","F","G","H","I","J","K","L","M",
           "N","O","P","Q","R","S","T","U","V","W","X","Y","Z">>

LowerOf == <<"a","b","c","d","e","f","g","h","i","j","k","l","m",
             "n","o","p","q","r","s","t","u","v","w","x","y","z">>

LowerChar(c) ==
    IF \E i \in 1..Len(Upper) : Upper[i] = c
    THEN LowerOf[CHOOSE i \in 1..Len(Upper) : Upper[i] = c]
    ELSE c

\* str.lower()
Lower(s) == [i \in 1..Len(s) |-> LowerChar(s[i])]

RECURSIVE LStrip(_)
LStrip(s) ==
    IF s # <<>> /\ Head(s) \in Whitespace THEN LStrip(Tail(s)) ELSE s

RECURSIVE RStrip(_)
RStrip(s) ==
    IF s # <<>> /\ s[Len(s)] \in Whitespace
    THEN RStrip(SubSeq(s, 1, Len(s) - 1))
    ELSE s

\* str.strip()
Strip(s) == RStrip(LStrip(s))

\* str.split(sep) for a one-character sep: "".split(",") is [""]
RECURSIVE Split(_, _)
Split(s, sep) ==
    IF \E i \in 1..Len(s) : s[i] = sep
    THEN LET i == CHOOSE j \in 1..Len(s) :
                      s[j] = sep /\ \A k \in 1..(j - 1) : s[k] # sep
         IN  <<SubSeq(s, 1, i - 1)>> \o Split(SubSeq(s, i + 1, Len(s)), sep)
    ELSE <<s>>

(***************************************************************************)
(* utils.py                                                                *)
(***************************************************************************)
\* hmac.new(secret, body, sha256).hexdigest(): the digest is kept symbolic, a hex
\* string determined by the key and the message and by nothing else
hexdigest(secret, body) == [kind |-> "hex", key |-> secret, msg |-> body]

\* hmac.compare_digest on two str: raises TypeError unless both are ASCII
compare_digest(a, b) ==
    IF a.kind = "nonascii" \/ b.kind = "nonascii"
    THEN "TypeError"
    ELSE IF a.kind = b.kind /\ a = b THEN "True" ELSE "False"

\* "True", "False", or the name of the exception raised
verify_plane_signature(secret, body, received_sig) ==
    IF received_sig.kind = "empty"
    THEN "False"
    ELSE compare_digest(hexdigest(secret, body), received_sig)

RECURSIVE Walk(_, _)
Walk(current, path) ==
    IF path = <<>> THEN [found |-> TRUE, value |-> current]
    ELSE IF current.t # "dict" THEN [found |-> FALSE, value |-> None]
    ELSE IF Head(path) \notin DOMAIN current.v THEN [found |-> FALSE, value |-> None]
    ELSE Walk(current.v[Head(path)], Tail(path))

\* expected_type is "str", "list" or "any" (no type check)
get_nested_value(p, path, expected_type, default) ==
    LET w == Walk(p, path)
    IN  IF ~w.found THEN default
        ELSE IF expected_type # "any" /\ w.value.t # expected_type THEN default
        ELSE w.value

get_actor_value_from_payload(p, key) ==
    get_nested_value(p, <<"activity", "actor", key>>, "str", None)

get_activity_value_from_payload(p, key) ==
    get_nested_value(p, <<"activity", key>>, "str", None)

get_data_value_from_payload(p, key) ==
    get_nested_value(p, <<"data", key>>, "str", None)

\* the str(assignee[key]) of every dict entry of data.assignees that has the key
AssigneeValues(p, key) ==
    LET assignees_raw == get_nested_value(p, <<"data", "assignees">>, "list", List(<<>>))
        Has(a) == a.t = "dict" /\ key \in DOMAIN a.v
        kept == SelectSeq(assignees_raw.v, Has)
    IN  [i \in 1..Len(kept) |-> PyStr(kept[i].v[key])]

get_assignee_name_list_from_payload(p) == AssigneeValues(p, "display_name")

get_assignee_id_list_from_payload(p) == AssigneeValues(p, "id")

is_actor_sole_assignee(p) ==
    LET assignee_ids == get_assignee_id_list_from_payload(p)
        actor_id == get_actor_value_from_payload(p, "id")
    IN  /\ actor_id.t # "null"
        /\ Len(assignee_ids) = 1
        /\ assignee_ids[1] = actor_id.v

assignee_ids_literal == <<"a","s","s","i","g","n","e","e","_","i","d","s">>

\* the list comprehension of lines 221-225
SplitIds(s) ==
    LET parts == Split(s, ",")
        NonEmpty(x) == Strip(x) # <<>>
        kept == SelectSeq(parts, NonEmpty)
    IN  [i \in 1..Len(kept) |-> Str(Strip(kept[i]))]

was_non_actor_sole_assignee_removed(p) ==
    LET field_changed == get_activity_value_from_payload(p, "field")
        current_assignee_ids == get_assignee_id_list_from_payload(p)
        fetched == Or(get_activity_value_from_payload(p, "old_value"), List(<<>>))
        previous_assignee_ids ==
            IF fetched.t = "str" THEN List(SplitIds(fetched.v)) ELSE fetched
        actor_id == get_actor_value_from_payload(p, "id")
    IN  IF field_changed.t # "str" \/ field_changed.v # assignee_ids_literal THEN FALSE
        ELSE IF current_assignee_ids # <<>> THEN FALSE
        ELSE IF previous_assignee_ids.t # "list" THEN FALSE
        ELSE IF Len(previous_assignee_ids.v) # 1 THEN FALSE
        ELSE LET previous_assignee_id == previous_assignee_ids.v[1]
             IN  /\ Truthy(actor_id)
                 /\ Truthy(previous_assignee_id)
                 /\ ~(previous_assignee_id.t = actor_id.t
                      /\ previous_assignee_id.v = actor_id.v)

\* f"{x}" of an Optional[str]
Fmt(x) == PyStr(x)

generate_issue_url(p, workspace_base_url) ==
    workspace_base_url \o <<"/projects/">>
        \o Fmt(get_data_value_from_payload(p, "project"))
        \o <<"/issues/">> \o Fmt(get_data_value_from_payload(p, "id"))

generate_comment_url(p, workspace_base_url) ==
    workspace_base_url \o <<"/projects/">>
        \o Fmt(get_data_value_from_payload(p, "project"))
        \o <<"/issues/">> \o Fmt(get_data_value_from_payload(p, "issue"))
        \o <<"/#comment-">> \o Fmt(get_data_value_from_payload(p, "id"))

(***************************************************************************)
(* plugin.py: configuration and message builders                           *)
(***************************************************************************)
Bool(b) == [t |-> "bool", v |-> b]

\* bool(x) of a config value
PyBool(x) == IF x.t = "bool" THEN x.v ELSE Truthy(x)

\* self.config.get(key, default)
ConfigGet(cfg, key, default) == IF key \in DOMAIN cfg THEN cfg[key] ELSE default

\* `x in xs` for a str x and a list xs
InList(x, xs) == \E i \in 1..Len(xs.v) : xs.v[i].t = x.t /\ xs.v[i].v = x.v

name_literal == <<"n","a","m","e">>

target_date_literal == <<"t","a","r","g","e","t","_","d","a","t","e">>

\* FIELD_CHANGED_RENAMING.get(raw, raw)
FIELD_CHANGED_RENAMING(raw) ==
    CASE raw = target_date_literal -> <<"due date">>
      [] raw = name_literal        -> <<"title">>
      [] OTHER                     -> raw

\* lines 131-132: the emptiness test gate 1 uses
assignees_empty(p) == Len(get_assignee_name_list_from_payload(p)) = 0

\* gate 1 without the sole-assignee-removed override
Gate1NoOverride(p, cfg) ==
    /\ assignees_empty(p)
    /\ ~PyBool(ConfigGet(cfg, "send_notification_with_no_assignees", Bool(FALSE)))

\* lines 150-154
Gate1(p, cfg) ==
    /\ assignees_empty(p)
    /\ ~was_non_actor_sole_assignee_removed(p)
    /\ ~PyBool(ConfigGet(cfg, "send_notification_with_no_assignees", Bool(FALSE)))

\* line 163
Gate2(p, cfg) ==
    /\ is_actor_sole_assignee(p)
    /\ ~PyBool(ConfigGet(cfg, "send_notification_when_actor_is_sole_assignee", Bool(FALSE)))

\* lines 171-178
Gate3(p, cfg) ==
    LET field_changed_raw == Or(get_activity_value_from_payload(p, "field"), Str(<<>>))
        field_changed == Str(Lower(Strip(field_changed_raw.v)))
    IN  ~InList(field_changed, ConfigGet(cfg, "issue_updated_notification_fields", List(<<>>)))

\* the backquote character of the template (a string literal cannot hold it)
BQ == "[backquote]"

\* lines 189-209: the message of an update that passed the gates; the dash of
\* line 206 is written "--"
UpdatedMessage(p, cfg) ==
    LET issue_title == Or(get_data_value_from_payload(p, "name"), Str(<<"Untitled">>))
        actor_name == Or(get_actor_value_from_payload(p, "display_name"),
                         Str(<<"Unknown user">>))
        raw_field_changed == Or(get_activity_value_from_payload(p, "field"),
                                Str(<<"Unknown field">>))
        display_field_changed == FIELD_CHANGED_RENAMING(raw_field_changed.v)
        old_value == Or(get_activity_value_from_payload(p, "old_value"), Str(<<"None">>))
        new_value == Or(get_activity_value_from_payload(p, "new_value"), Str(<<"None">>))
        issue_url == generate_issue_url(p, cfg["workspace_url"])
    IN  Str(<<"Task: **[">> \o Fmt(issue_title) \o <<"](">> \o issue_url
            \o <<")** -- **">> \o display_field_changed
            \o <<"** updated by **">> \o Fmt(actor_name) \o <<"**\n\n">>
            \o <<"- **New:** ", BQ>> \o Fmt(new_value) \o <<BQ, "\n">>
            \o <<"- **Old:** ", BQ>> \o Fmt(old_value) \o <<BQ, "\n">>)

\* the return value and the log line written on the way
handle_issue_updated(p, cfg) ==
    IF Gate1(p, cfg) THEN [value |-> None, log |-> "skip: assignee list is empty"]
    ELSE IF Gate2(p, cfg) THEN [value |-> None, log |-> "skip: actor is the sole assignee"]
    ELSE IF Gate3(p, cfg) THEN [value |-> None, log |-> "skip: field not in notification fields"]
    ELSE [value |-> UpdatedMessage(p, cfg), log |-> "building notification"]

\* the locals handle_issue_updated computes at lines 131-137
UpdateLocals(p) ==
    [assignees_empty |-> assignees_empty(p),
     actor_is_sole_assignee |-> is_actor_sole_assignee(p),
     non_actor_sole_assignee_removed |-> was_non_actor_sole_assignee_removed(p)]

handle_issue_created(p, cfg) ==
    LET issue_title == Or(get_data_value_from_payload(p, "name"), Str(<<"Untitled">>))
        actor_name == Or(get_actor_value_from_payload(p, "display_name"),
                         Str(<<"Unknown user">>))
        priority == Or(get_data_value_from_payload(p, "priority"), Str(<<"None">>))
        target_date == Or(get_data_value_from_payload(p, "target_date"), Str(<<"None">>))
        assignee_names == get_assignee_name_list_from_payload(p)
        assignee_display ==
            IF assignee_names # <<>> THEN Join(<<",", " ">>, assignee_names)
            ELSE <<"Unassigned">>
        issue_url == generate_issue_url(p, cfg["workspace_url"])
    IN  Str(<<"**New task created** by **">> \o Fmt(actor_name) \o <<"**\n\n">>
            \o <<"- **Title & Link:** [">> \o Fmt(issue_title) \o <<"](">> \o issue_url
            \o <<")\n">>
            \o <<"- **Priority:** ">> \o Fmt(priority) \o <<"\n">>
            \o <<"- **Due date:** ">> \o Fmt(target_date) \o <<"\n">>
            \o <<"- **Assignees:** ">> \o assignee_display \o <<"\n">>)

handle_issue_comment(p, cfg) ==
    Str(<<"[Comment event](">> \o generate_comment_url(p, cfg["workspace_url"]) \o <<")">>)

(***************************************************************************)
(* Inputs: configurations, payloads, request bodies, signature headers     *)
(***************************************************************************)
MkConfig(no_assignees, actor_sole, fields) ==
    ("secret" :> "s3cret") @@ ("room_id" :> "!room:example.org")
        @@ ("workspace_url" :> <<"https://x">>)
        @@ Opt("send_notification_with_no_assignees", no_assignees)
        @@ Opt("send_notification_when_actor_is_sole_assignee", actor_sole)
        @@ Opt("issue_updated_notification_fields", fields)

FieldsOptions ==
    {List(<<>>), List(<<Str(name_literal)>>),
     List(<<Str(name_literal), Str(assignee_ids_literal)>>)}

\* every setting given, and the configuration with the optional settings unset
Configs ==
    {MkConfig(Bool(a), Bool(b), f) : a \in BOOLEAN, b \in BOOLEAN, f \in FieldsOptions}
        \cup {MkConfig(Absent, Absent, Absent)}

u1 == <<"u", "1">>

u2 == <<"u", "2">>

\* entries of data.assignees: id only, display_name only, both, and a bare string
AssigneeEntries ==
    {Dict("id" :> Str(u1)), Str(u1),
     Dict("display_name" :> Str(<<"A", "l">>)),
     Dict(("id" :> Str(u1)) @@ ("display_name" :> Str(<<"A", "l">>)))}

AssigneeOptions ==
    {Absent} \cup {List(xs) : xs \in UNION {[1..k -> AssigneeEntries] : k \in 0..MaxAssignees}}

FieldOptions ==
    {Absent, Str(assignee_ids_literal), Str(<<" ", "N", "a", "m", "e">>), Num(7)}

OldValueOptions ==
    {Absent, Str(<<>>), Str(u2), Str(<<" ", "u", "2", " ", ",", " ">>),
     Str(<<"u", "1", ",", "u", "2">>), List(<<Str(u2)>>), List(<<Str(<<"a">>), Str(<<"b">>)>>)}

NewValueOptions == {Absent, Str(<<"x">>), List(<<Str(u1)>>)}

ActorIdOptions == {Absent, Str(<<>>), Str(u1), Str(u2)}

MkPayload(event, action, assignees, field, old, new, actor_id) ==
    Dict(Opt("event", event) @@ Opt("action", action)
         @@ ("data" :> Dict(("name" :> Str(<<"Fix bug">>)) @@ ("project" :> Str(<<"P1">>))
                            @@ ("issue" :> Str(<<"I2">>)) @@ ("id" :> Str(<<"C3">>))
                            @@ Opt("assignees", assignees)))
         @@ ("activity" :> Dict(Opt("field", field) @@ Opt("old_value", old)
                                @@ Opt("new_value", new)
                                @@ ("actor" :> Dict(("display_name" :> Str(<<"Bob">>))
                                                    @@ Opt("id", actor_id))))))

UpdatePayloads ==
    {MkPayload(Str(<<"issue">>), Str(<<"updated">>), as, f, o, n, a) :
        as \in AssigneeOptions, f \in FieldOptions, o \in OldValueOptions,
        n \in NewValueOptions, a \in ActorIdOptions}

EventOptions == {Absent, Str(<<"issue">>), Str(<<"issue_comment">>), Str(<<"project">>)}

ActionOptions == {Absent, Str(<<"created">>), Str(<<"updated">>), Str(<<"deleted">>)}

\* the webhook's documents: every event/action pair on three issue shapes (an
\* update that passes the gates, one with no assignees, one that cleared the
\* sole assignee), the empty object, and the documents that are no object
FlowPayloads ==
    {MkPayload(e, a, List(<<Dict(("id" :> Str(u1)) @@ ("display_name" :> Str(<<"A", "l">>)))>>),
               Str(name_literal), Str(<<"a">>), Str(<<"b">>), Str(u2)) :
        e \in EventOptions, a \in ActionOptions}
    \cup {MkPayload(e, a, List(<<>>), Str(name_literal), Str(<<"a">>), Str(<<"b">>), Str(u2)) :
        e \in EventOptions, a \in ActionOptions}
    \cup {MkPayload(e, a, List(<<>>), Str(assignee_ids_literal), Str(u1), Absent, Str(u2)) :
        e \in EventOptions, a \in ActionOptions}
    \cup {Dict(EmptyMap)}

NonObjectDocuments == {List(<<>>), Str(<<"hi">>), Num(1), None}

\* raw bodies: bytes that are not UTF-8, text that is not JSON, a JSON document
Bodies ==
    {[kind |-> "not_utf8", doc |-> None], [kind |-> "not_json", doc |-> None]}
        \cup {[kind |-> "json", doc |-> d] : d \in FlowPayloads \cup NonObjectDocuments}

\* header values for a body: missing or empty (headers.get default ""), the digest
\* under the configured secret, the digest under another key, a non-ASCII str
Signatures(cfg, body) ==
    {[kind |-> "empty", key |-> "", msg |-> body],
     hexdigest(cfg["secret"], body),
     hexdigest("other", body),
     [kind |-> "nonascii", key |-> "", msg |-> body]}

(***************************************************************************)
(* plugin.py: PlaneBot.webhook                                             *)
(***************************************************************************)
NoRequest == [body |-> [kind |-> "none", doc |-> None],
              sig |-> [kind |-> "empty", key |-> "", msg |-> [kind |-> "none", doc |-> None]]]

NoResponse == [status |-> 0, json |-> "", error_message |-> <<>>]

NoResult == [value |-> None, log |-> "", assignees_empty |-> FALSE,
             actor_is_sole_assignee |-> FALSE, non_actor_sole_assignee_removed |-> FALSE]

\* json_response(data, status=200)
json_response(status_text, status) ==
    [status |-> status, json |-> status_text, error_message |-> <<>>]

\* the failure response sent with the default status
FailedResponseDefaultStatus(error_message) ==
    [status |-> 200, json |-> "failed to send message", error_message |-> error_message]

\* lines 112-118
FailedResponse(error_message) ==
    [status |-> 500, json |-> "failed to send message", error_message |-> error_message]

\* json.loads(body_bytes.decode("utf-8")): the document, or the exception raised
json_loads(body) ==
    CASE body.kind = "not_utf8" -> [raised |-> "UnicodeDecodeError", value |-> None]
      [] body.kind = "not_json" -> [raised |-> "JSONDecodeError", value |-> None]
      [] OTHER                  -> [raised |-> "", value |-> body.doc]

\* dict.get(key)
PyGet(d, key) == IF key \in DOMAIN d.v THEN d.v[key] ELSE None

\* x == "literal"
EqStr(x, literal) == x.t = "str" /\ x.v = literal

\* lines 74-89: the message and the handlers called
Route(p, cfg) ==
    LET event_type == PyGet(p, "event")
        action_type == PyGet(p, "action")
        initial == [message |-> Str(<<"t", "e", "s", "t">>), calls |-> <<>>]
    IN  IF EqStr(event_type, <<"issue">>)
        THEN LET after_created ==
                     IF EqStr(action_type, <<"created">>)
                     THEN [message |-> handle_issue_created(p, cfg),
                           calls |-> <<"handle_issue_created">>]
                     ELSE initial
             IN  IF EqStr(action_type, <<"updated">>)
                 THEN [message |-> handle_issue_updated(p, cfg).value,
                       calls |-> after_created.calls \o <<"handle_issue_updated">>]
                 ELSE after_created
        ELSE IF EqStr(event_type, <<"issue_comment">>)
        THEN IF EqStr(action_type, <<"created">>)
             THEN [message |-> handle_issue_comment(p, cfg),
                   calls |-> <<"handle_issue_comment">>]
             ELSE initial
        ELSE initial

Init ==
    /\ config \in Configs
    /\ pc = "idle"
    /\ request = NoRequest
    /\ payload = None
    /\ message = None
    /\ response = NoResponse
    /\ exception = ""
    /\ delivery = "none"
    /\ sent = <<>>
    /\ trace = <<>>
    /\ result = NoResult

\* lines 54-58: the request arrives
Receive ==
    /\ pc = "idle"
    /\ \E body \in Bodies : \E sig \in Signatures(config, body) :
           request' = [body |-> body, sig |-> sig]
    /\ pc' = "verify"
    /\ UNCHANGED <<config, payload, message, response, exception, delivery, sent,
                   trace, result>>

\* lines 60-62
Verify ==
    /\ pc = "verify"
    /\ LET ok == verify_plane_signature(config["secret"], request.body, request.sig)
       IN  CASE ok = "True" ->
                    /\ pc' = "parse"
                    /\ trace' = Append(trace, "verified")
                    /\ UNCHANGED <<response, exception>>
             [] ok = "False" ->
                    /\ pc' = "done"
                    /\ response' = json_response("unauthorized", 403)
                    /\ UNCHANGED <<trace, exception>>
             [] OTHER ->
                    /\ pc' = "raised"
                    /\ exception' = ok
                    /\ UNCHANGED <<trace, response>>
    /\ UNCHANGED <<config, request, payload, message, delivery, sent, result>>

\* lines 64-71
Parse ==
    /\ pc = "parse"
    /\ LET loaded == json_loads(request.body)
       IN  CASE loaded.raised = "" ->
                    /\ pc' = "dispatch"
                    /\ payload' = loaded.value
                    /\ UNCHANGED <<response, exception>>
             [] loaded.raised = "JSONDecodeError" ->
                    /\ pc' = "done"
                    /\ response' = json_response("bad json", 400)
                    /\ UNCHANGED <<payload, exception>>
             [] OTHER ->
                    /\ pc' = "raised"
                    /\ exception' = loaded.raised
                    /\ UNCHANGED <<payload, response>>
    /\ trace' = Append(trace, "json.loads")
    /\ UNCHANGED <<config, request, message, delivery, sent, result>>

\* lines 73-93
Dispatch ==
    /\ pc = "dispatch"
    /\ IF payload.t # "dict"
       THEN /\ pc' = "raised"
            /\ exception' = "AttributeError"
            /\ UNCHANGED <<message, response, trace>>
       ELSE LET routed == Route(payload, config)
            IN  /\ message' = routed.message
                /\ trace' = trace \o routed.calls
                /\ exception' = exception
                /\ IF ~Truthy(routed.message)
                   THEN pc' = "done" /\ response' = json_response("ok", 200)
                   ELSE pc' = "send" /\ response' = response
    /\ UNCHANGED <<config, request, payload, delivery, sent, result>>

\* a delivery step that calls send_markdown a second time when the first call fails
SendRetrying ==
    /\ pc = "send"
    /\ \E outcome \in {"ok", "error"} :
          /\ delivery' = outcome
          /\ sent' = LET call == [room_id |-> config["room_id"], text |-> message,
                                  msgtype |-> "m.text"]
                     IN  IF outcome = "ok" THEN <<call>> ELSE <<call, call>>
          /\ response' =
                IF outcome = "ok" THEN json_response("ok", 200)
                ELSE FailedResponse(<<"Failed to send message '">> \o message.v
                                     \o <<"' to room ", config["room_id"], ": ">>
                                     \o <<"M_FORBIDDEN">>)
    /\ trace' = Append(trace, "send_markdown")
    /\ pc' = "done"
    /\ UNCHANGED <<config, request, payload, message, exception, result>>

\* lines 95-120: the one send_markdown call and what follows it
Send ==
    /\ pc = "send"
    /\ sent' = Append(sent, [room_id |-> config["room_id"], text |-> message,
                             msgtype |-> "m.text"])
    /\ trace' = Append(trace, "send_markdown")
    /\ \E outcome \in {"ok", "error"} :
          /\ delivery' = outcome
          /\ response' =
                IF outcome = "ok" THEN json_response("ok", 200)
                ELSE FailedResponse(<<"Failed to send message '">> \o message.v
                                     \o <<"' to room ", config["room_id"], ": ">>
                                     \o <<"M_FORBIDDEN">>)
    /\ pc' = "done"
    /\ UNCHANGED <<config, request, payload, message, exception, result>>

Next == Receive \/ Verify \/ Parse \/ Dispatch \/ Send

Spec == Init /\ [][Next]_vars

(***************************************************************************)
(* handle_issue_updated as a function of (payload, config)                 *)
(***************************************************************************)
InitUpdate ==
    /\ config \in Configs
    /\ payload \in UpdatePayloads
    /\ pc = "call"
    /\ request = NoRequest
    /\ message = None
    /\ response = NoResponse
    /\ exception = ""
    /\ delivery = "none"
    /\ sent = <<>>
    /\ trace = <<>>
    /\ result = NoResult

\* lines 122-209
CallHandleIssueUpdated ==
    /\ pc = "call"
    /\ result' = handle_issue_updated(payload, config) @@ UpdateLocals(payload)
    /\ pc' = "returned"
    /\ UNCHANGED <<config, request, payload, message, response, exception, delivery,
                   sent, trace>>

NextUpdate == CallHandleIssueUpdated

SpecUpdate == InitUpdate /\ [][NextUpdate]_vars

(***************************************************************************)
(* Vocabulary of the properties                                            *)
(***************************************************************************)
\* the outcome a finished request stands for, read off the response and the calls
Outcome ==
    CASE response.json = "unauthorized"           -> "Unauthorized"
      [] response.json = "bad json"               -> "BadPayload"
      [] response.json = "failed to send message" -> "DeliveryFailed"
      [] response.json = "ok" /\ sent = <<>>      -> "NoMessage"
      [] response.json = "ok" /\ sent # <<>>      -> "Delivered"
      [] OTHER                                    -> "none"

Outcomes == {"Unauthorized", "BadPayload", "NoMessage", "Delivered", "DeliveryFailed"}

Handlers == {"handle_issue_created", "handle_issue_updated", "handle_issue_comment"}

InTrace(e) == \E i \in 1..Len(trace) : trace[i] = e

\* the three (event, action) pairs of the dispatch table
HandledPair(p) ==
    LET e == PyGet(p, "event")
        a == PyGet(p, "action")
    IN  \/ EqStr(e, <<"issue">>) /\ EqStr(a, <<"created">>)
        \/ EqStr(e, <<"issue">>) /\ EqStr(a, <<"updated">>)
        \/ EqStr(e, <<"issue_comment">>) /\ EqStr(a, <<"created">>)

\* the header is absent, empty, or differs from the hex HMAC of the body
BadSignature ==
    \/ request.sig.kind = "empty"
    \/ request.sig # hexdigest(config["secret"], request.body)

\* the value of activity.<key> as the document gives it
Given(p, key) == Walk(p, <<"activity", key>>)

\* the ids a previous value holds: the trimmed, non-empty elements of a
\* comma-separated string or of a list
PreviousIds(p) ==
    LET w == Given(p, "old_value")
        NonEmptyStr(x) == x.t = "str" /\ Strip(x.v) # <<>>
    IN  IF ~w.found THEN <<>>
        ELSE IF w.value.t = "str" THEN SplitIds(w.value.v)
        ELSE IF w.value.t = "list"
        THEN LET kept == SelectSeq(w.value.v, NonEmptyStr)
             IN  [i \in 1..Len(kept) |-> Str(Strip(kept[i].v))]
        ELSE <<>>

\* the text between the backquotes of the message line that starts with `label`
Shown(text, label) ==
    LET i == CHOOSE k \in 1..Len(text) : text[k] = label
        j == CHOOSE k \in (i + 2)..Len(text) :
                 text[k] = BQ /\ \A m \in (i + 2)..(k - 1) : text[m] # BQ
    IN  SubSeq(text, i + 2, j - 1)

\* a value of the change record is shown as given, and as None when it is absent
ShownAsGiven(p, key, text, label) ==
    LET w == Given(p, key)
    IN  IF ~w.found \/ w.value.t = "null"
        THEN Shown(text, label) = <<"None">>
        ELSE ((w.value.t = "str" /\ w.value.v # <<>>) \/ w.value.t = "list")
                => Shown(text, label) = PyStr(w.value)

NoAssigneeIds(p) == get_assignee_id_list_from_payload(p) = <<>>

SendWithNoAssignees(cfg) ==
    PyBool(ConfigGet(cfg, "send_notification_with_no_assignees", Bool(FALSE)))

SendWhenActorIsSole(cfg) ==
    PyBool(ConfigGet(cfg, "send_notification_when_actor_is_sole_assignee", Bool(FALSE)))

NotificationFields(cfg) == ConfigGet(cfg, "issue_updated_notification_fields", List(<<>>))

(***************************************************************************)
(* Properties of PlaneBot.webhook (Spec)                                   *)
(***************************************************************************)
\* C1: an authenticated request whose body is a JSON object and whose
\* (event, action) pair is not in the dispatch table hands nothing to chat
\* delivery and ends NoMessage.
C1_UnhandledPairSuppressed ==
    (pc \in {"send", "done"} /\ InTrace("json.loads") /\ payload.t = "dict"
        /\ ~HandledPair(payload))
    => (pc = "done" /\ sent = <<>> /\ Outcome = "NoMessage")

\* C2: a request with an absent, empty or wrong signature ends Unauthorized with
\* no JSON parse, no handler and no delivery; parse, handlers and delivery only
\* ever follow a successful verification.
C2_BadSignatureEndsUnauthorized ==
    /\ (BadSignature /\ pc \notin {"idle", "verify"})
        => (pc = "done" /\ Outcome = "Unauthorized" /\ trace = <<>> /\ sent = <<>>)
    /\ \A i \in 1..Len(trace) :
          trace[i] \in Handlers \cup {"json.loads", "send_markdown"}
              => \E j \in 1..(i - 1) : trace[j] = "verified"

\* C3: no exception escapes webhook and a finished request has exactly one of
\* the five outcomes; stated for the authenticated requests the claim singles
\* out (a body that is not UTF-8, a JSON document that is no object, an object
\* with fields of unexpected kinds).
C3_NoExceptionEscapes ==
    /\ InTrace("verified") => (pc # "raised" /\ exception = "")
    /\ pc = "done" => Outcome \in Outcomes

C9_StatusAsStated ==
    (pc = "done" /\ (sent # <<>> => \E i \in 1..Len(trace) : trace[i] \in Handlers)) =>
        response.status = (CASE Outcome = "Unauthorized" -> 403
                             [] Outcome = "BadPayload"   -> 400
                             [] OTHER                    -> 200)

\* C9 amended: Unauthorized returns 403, BadPayload 400, NoMessage and Delivered
\* 200, DeliveryFailed 500; every response webhook returns carries the status of
\* its outcome, and no other status is ever returned.
C9_StatusByOutcome ==
    /\ pc = "done" =>
          /\ Outcome \in Outcomes
          /\ response.status = (CASE Outcome = "Unauthorized"   -> 403
                                  [] Outcome = "BadPayload"     -> 400
                                  [] Outcome = "DeliveryFailed" -> 500
                                  [] OTHER                      -> 200)
    /\ pc # "done" => response = NoResponse

\* a request whose handler composed a message and that ended DeliveryFailed
C9_Witness ==
    /\ pc = "done"
    /\ InTrace("handle_issue_created")
    /\ Outcome = "DeliveryFailed"
    /\ response.status = 500

(***************************************************************************)
(* Properties of handle_issue_updated (SpecUpdate)                         *)
(***************************************************************************)
\* C5 as stated: with no assignees, send_notification_with_no_assignees false and
\* the sole-assignee-removed predicate true, the handler returns a message
\* whatever the other settings are.
C5_OverrideAlwaysNotifies ==
    (pc = "returned" /\ NoAssigneeIds(payload)
        /\ "send_notification_with_no_assignees" \in DOMAIN config
        /\ ~SendWithNoAssignees(config)
        /\ was_non_actor_sole_assignee_removed(payload))
    => result.value # None

\* C5 amended: in that case neither the no-assignees gate nor the sole-assignee
\* gate suppresses the update, and the handler returns a message exactly when
\* "assignee_ids" is one of issue_updated_notification_fields.
C5_OverridePassesGate1 ==
    (pc = "returned" /\ NoAssigneeIds(payload) /\ ~SendWithNoAssignees(config)
        /\ was_non_actor_sole_assignee_removed(payload))
    => /\ result.log \notin {"skip: assignee list is empty",
                             "skip: actor is the sole assignee"}
       /\ result.value # None
             <=> InList(Str(assignee_ids_literal), NotificationFields(config))

\* the override at work: gate 1 saw no assignees and a message was still built
C5_Witness ==
    /\ pc = "returned"
    /\ result.assignees_empty
    /\ ~SendWithNoAssignees(config)
    /\ result.non_actor_sole_assignee_removed
    /\ result.value # None

\* C6: the predicate is true exactly when activity.field is "assignee_ids", the
\* current assignee-id list is empty, old_value (string or list) holds exactly
\* one non-empty trimmed id, and that id differs from a present, non-empty
\* actor id.
C6_SoleAssigneeRemovedIff ==
    pc = "returned" =>
        (result.non_actor_sole_assignee_removed
            <=> LET f == Given(payload, "field")
                    a == Walk(payload, <<"activity", "actor", "id">>)
                    prev == PreviousIds(payload)
                IN  /\ f.found /\ EqStr(f.value, assignee_ids_literal)
                    /\ NoAssigneeIds(payload)
                    /\ Len(prev) = 1
                    /\ a.found /\ a.value.t = "str" /\ a.value.v # <<>>
                    /\ prev[1].v # a.value.v)

\* C7: the handler returns no message exactly when (1) there are no assignees,
\* the sole-assignee-removed predicate is false and
\* send_notification_with_no_assignees is false, or (2) the actor is the sole
\* assignee and send_notification_when_actor_is_sole_assignee is false, or
\* (3) activity.field, trimmed and lower-cased (empty when missing), is not in
\* issue_updated_notification_fields.
C7_SuppressedIffGate ==
    pc = "returned" =>
        (result.value = None
            <=> LET f == Given(payload, "field")
                    a == Walk(payload, <<"activity", "actor", "id">>)
                    ids == get_assignee_id_list_from_payload(payload)
                    field == IF f.found /\ f.value.t = "str"
                             THEN Lower(Strip(f.value.v)) ELSE <<>>
                IN  \/ /\ ids = <<>>
                       /\ ~was_non_actor_sole_assignee_removed(payload)
                       /\ ~SendWithNoAssignees(config)
                    \/ /\ a.found /\ a.value.t = "str"
                       /\ Len(ids) = 1 /\ ids[1] = a.value.v
                       /\ ~SendWhenActorIsSole(config)
                    \/ ~InList(Str(field), NotificationFields(config)))

\* C8: a composed message shows new_value and old_value as the payload gives
\* them, string or list, and shows None only for a value that is absent.
C8_ValuesShownAsGiven ==
    (pc = "returned" /\ result.value # None) =>
        /\ ShownAsGiven(payload, "new_value", result.value.v, "- **New:** ")
        /\ ShownAsGiven(payload, "old_value", result.value.v, "- **Old:** ")

\* C10: gate 1 takes the assignees for empty exactly when no entry of
\* data.assignees carries an id.
C10_Gate1EmptinessIsIdList ==
    pc = "returned" => (result.assignees_empty <=> NoAssigneeIds(payload))

====
